---- MODULE Spec2Model ----
(***************************************************************************)
(* Model of app/main.py: the numeric normalisation prepare_data_for_json   *)
(* and the request handler analyze_turn of POST /analyze_turn.             *)
(*                                                                         *)
(* Python values are records [k, v, s, keys, items]:                       *)
(*   k      the type: "none" "bool" "int" "float" "str" (plain scalars),   *)
(*          "npint" "npfloat" (NumPy scalars), "ndarray" (numeric dtype),  *)
(*          "list" "tuple" "dict"                                          *)
(*   v      the numeric payload of a scalar (0 otherwise)                  *)
(*   s      the text of a str ("" otherwise)                               *)
(*   keys   the keys of a dict, in insertion order (<<>> otherwise)        *)
(*   items  the elements of a list, tuple or ndarray, or the values of a   *)
(*          dict in the order of keys (<<>> otherwise)                     *)
(***************************************************************************)
EXTENDS Integers, Sequences, FiniteSets, TLC

VARIABLES
    pc,             \* position of analyze_turn: which call it is blocked in
    data,           \* request.get_json()
    questionnaires, \* data.get("questionnaires", {})
    past_turns,     \* data.get("past_turns", [])
    video_file,     \* data.get("video_url", {})
    assembly_data,  \* normalised result of analyze_audio
    deepface_data,  \* normalised result of analyze_video
    transcript,     \* assembly_data.get("transcript")
    found_trigger,  \* first component of check_trigger_words' result
    word,           \* second component of check_trigger_words' result
    model_output,   \* result of call_openai_therapy_model
    events,         \* the calls made to collaborators and how each ended
    response,       \* what the request ended with: status and JSON body
    npc,            \* normalisation harness: "in", "once", "twice"
    x,              \* normalisation harness: the input
    once,           \* prepare_data_for_json(x)
    twice           \* prepare_data_for_json(prepare_data_for_json(x))

hvars == <<pc, data, questionnaires, past_turns, video_file, assembly_data,
           deepface_data, transcript, found_trigger, word, model_output,
           events, response>>
nvars == <<npc, x, once, twice>>
vars == <<hvars, nvars>>

----------------------------------------------------------------------------
(* Python values *)

Scalar(kind, n) == [k |-> kind, v |-> n, s |-> "", keys |-> <<>>, items |-> <<>>]
PyNone == Scalar("none", 0)
PyBool(b) == Scalar("bool", IF b THEN 1 ELSE 0)
PyInt(n) == Scalar("int", n)
PyFloat(n) == Scalar("float", n)
NpInt(n) == Scalar("npint", n)
NpFloat(n) == Scalar("npfloat", n)
PyStr(t) == [k |-> "str", v |-> 0, s |-> t, keys |-> <<>>, items |-> <<>>]
PyList(elems) == [k |-> "list", v |-> 0, s |-> "", keys |-> <<>>, items |-> elems]
PyTuple(elems) == [k |-> "tuple", v |-> 0, s |-> "", keys |-> <<>>, items |-> elems]
NdArray(elems) == [k |-> "ndarray", v |-> 0, s |-> "", keys |-> <<>>, items |-> elems]
PyDict(ks, vals) == [k |-> "dict", v |-> 0, s |-> "", keys |-> ks, items |-> vals]

\* bool(value): Python truthiness of the values the handler tests (JSON values
\* of the request, values of normalised results, values the model returned):
\* None, zero, "" and empty containers are false.
Truthy(value) ==
    CASE value.k = "none" -> FALSE
      [] value.k = "str" -> value.s # ""
      [] value.k \in {"list", "tuple", "dict"} -> Len(value.items) > 0
      [] OTHER -> value.v # 0

\* d.get(key, default) on a dict d.
DictGet(d, key, default) ==
    IF \E i \in 1..Len(d.keys) : d.keys[i] = key
    THEN d.items[CHOOSE i \in 1..Len(d.keys) : d.keys[i] = key]
    ELSE default

\* hasattr(value, "get"): only a mapping has the method the handler calls.
HasGet(value) == value.k = "dict"

----------------------------------------------------------------------------
(* prepare_data_for_json *)

\* float(data) of a NumPy float: the plain float of the same value.
float(value) == PyFloat(value.v)

\* int(data) of a NumPy integer: the plain int of the same value.
int(value) == PyInt(value.v)

\* Faulty variant of tolist, list(data) for data.tolist(): the elements stay
\* NumPy scalars.
RECURSIVE tolist_keeps_scalars(_)
tolist_keeps_scalars(arr) ==
    PyList([i \in 1..Len(arr.items) |->
        IF arr.items[i].k = "ndarray" THEN tolist_keeps_scalars(arr.items[i])
        ELSE arr.items[i]])

\* ndarray.tolist() of a numeric array: nested plain lists of plain scalars.
RECURSIVE tolist(_)
tolist(arr) ==
    PyList([i \in 1..Len(arr.items) |->
        LET e == arr.items[i] IN
        CASE e.k = "ndarray" -> tolist(e)
          [] e.k = "npfloat" -> PyFloat(e.v)
          [] e.k = "npint" -> PyInt(e.v)
          [] OTHER -> e])

RECURSIVE prepare_data_for_json(_)
prepare_data_for_json(value) ==
    IF value.k = "dict"
    THEN PyDict(value.keys,
                [i \in 1..Len(value.items) |-> prepare_data_for_json(value.items[i])])
    ELSE IF value.k = "list"
    THEN PyList([i \in 1..Len(value.items) |-> prepare_data_for_json(value.items[i])])
    ELSE IF value.k = "npfloat" THEN float(value)
    ELSE IF value.k = "npint" THEN int(value)
    ELSE IF value.k = "ndarray" THEN tolist(value)
    ELSE value

----------------------------------------------------------------------------
(* Inputs of the normalisation harness *)

\* Most nodes (scalars and containers) in one input.
MaxNodes == 3

\* Scalar leaves: plain scalars and NumPy scalars.
Leaves ==
    {PyInt(n) : n \in {0, 1}} \cup {PyStr(t) : t \in {"", "a"}}
    \cup {NpInt(n) : n \in {0, 1}} \cup {NpFloat(n) : n \in {0, 1}}

\* The keys of a generated dict, in insertion order.
KeyNames == <<"a", "b", "c", "d", "e", "f">>

\* Elements an ndarray of a numeric dtype yields: all of one NumPy type.
RECURSIVE NumSeqs(_, _)
NumSeqs(kind, n) ==
    IF n = 0 THEN {<<>>}
    ELSE NumSeqs(kind, n - 1)
         \cup {<<Scalar(kind, m)>> \o r : m \in {0, 1}, r \in {q \in NumSeqs(kind, n - 1) : Len(q) = n - 1}}

RECURSIVE Trees(_), TreeSeqs(_)
\* Every value of at most n nodes.
Trees(n) ==
    IF n = 0 THEN {}
    ELSE Leaves
         \cup {PyList(sq) : sq \in TreeSeqs(n - 1)}
         \cup {PyTuple(sq) : sq \in TreeSeqs(n - 1)}
         \cup {PyDict(SubSeq(KeyNames, 1, Len(sq)), sq) : sq \in TreeSeqs(n - 1)}
         \cup {NdArray(sq) : sq \in NumSeqs("npfloat", n - 1) \cup NumSeqs("npint", n - 1)}
\* Every sequence of values of at most m nodes in all.
TreeSeqs(m) ==
    {<<>>} \cup UNION {{<<t>> \o r : t \in Trees(j), r \in TreeSeqs(m - j)} : j \in 1..m}

Inputs == Trees(MaxNodes)

----------------------------------------------------------------------------
(* analyze_turn: collaborators *)

AUDIO == "analyze_audio"
VIDEO == "analyze_video"
TRIGGER == "check_trigger_words"
MODEL == "call_openai_therapy_model"

Call(svc) == [e |-> "call", svc |-> svc]
Return(svc) == [e |-> "return", svc |-> svc]
Raise(svc) == [e |-> "raise", svc |-> svc]

\* A collaborator either raises or returns a value.
Raised == [raised |-> TRUE, value |-> PyNone]
Returned(value) == [raised |-> FALSE, value |-> value]

EmptyDict == PyDict(<<>>, <<>>)
EmptyList == PyList(<<>>)

\* JSON bodies of POST /analyze_turn: objects with any of the three fields
\* absent, and bodies that are no object (null, an array).
Opt(key, vals) == {<<>>} \cup {<<[key |-> key, val |-> val]>> : val \in vals}
ObjectOf(fields) ==
    PyDict([i \in 1..Len(fields) |-> fields[i].key], [i \in 1..Len(fields) |-> fields[i].val])
RequestBodies ==
    {ObjectOf(q \o p \o u) :
        q \in Opt("questionnaires", {PyDict(<<"phq9">>, <<EmptyList>>)}),
        p \in Opt("past_turns", {PyList(<<PyStr("turn 1")>>)}),
        u \in Opt("video_url", {PyNone, PyStr(""), EmptyList, PyStr("clip.mp4")})}
    \cup {PyNone, EmptyList}

\* What analyze_audio may return: a mapping, with or without a transcript.
AudioResults ==
    {EmptyDict,
     PyDict(<<"confidence">>, <<NpFloat(1)>>),
     PyDict(<<"transcript">>, <<PyNone>>),
     PyDict(<<"transcript", "confidence">>, <<PyStr(""), NpFloat(0)>>),
     PyDict(<<"transcript", "confidence">>, <<PyStr("I want to end it all"), NpFloat(1)>>),
     PyDict(<<"transcript", "words">>, <<PyStr("I had a good day"), NdArray(<<NpInt(1), NpInt(0)>>)>>)}

\* What analyze_video may return: a mapping of emotion metrics.
VideoResults ==
    {EmptyDict,
     PyDict(<<"dominant_emotion", "emotion">>,
            <<PyStr("sad"), PyDict(<<"sad", "happy">>, <<NpFloat(1), NpFloat(0)>>)>>),
     PyDict(<<"frames">>, <<PyList(<<PyDict(<<"face_confidence">>, <<NpFloat(1)>>)>>)>>)}

\* What check_trigger_words may return: (found, matched phrase).
TriggerPhrases == {"end it all", "hurt myself"}
TriggerResults ==
    {[found |-> TRUE, word |-> PyStr(ph)] : ph \in TriggerPhrases}
    \cup {[found |-> FALSE, word |-> PyNone]}

\* What call_openai_therapy_model may return.
ModelOutputs ==
    {EmptyDict,
     PyDict(<<"bot_reply">>, <<PyStr("Glad to hear!")>>),
     PyDict(<<"bot_reply", "diagnostic_mapping">>, <<PyStr("Glad to hear!"), EmptyDict>>),
     PyDict(<<"bot_reply", "diagnostic_mapping">>, <<PyStr("Glad to hear!"), EmptyList>>),
     PyDict(<<"bot_reply", "diagnostic_mapping">>, <<PyStr("Glad to hear!"), PyNone>>),
     PyDict(<<"bot_reply", "conversation_type", "diagnostic_mapping">>,
            <<PyStr("Tell me more."), PyStr("diagnostic"),
              PyDict(<<"phq9_q1">>, <<PyInt(1)>>)>>),
     PyDict(<<"bot_reply", "conversation_type", "diagnostic_mapping">>,
            <<PyStr("Tell me more."), PyStr("diagnostic"),
              PyList(<<PyStr("phq9_q1")>>)>>)}

Outcomes(results) == {Raised} \cup {Returned(r) : r \in results}

----------------------------------------------------------------------------
(* analyze_turn: the pieces of its body *)

\* (jsonify(body), status)
Respond(body, status) == [status |-> status, body |-> body]

NoResponse == [status |-> 0, body |-> PyNone]

\* An exception nobody catches: the framework answers 500, without a JSON body.
ServerError == [status |-> 500, body |-> PyNone]

\* Faulty variant of video_missing: if video_file is None
video_missing_only_none(value) == value.k = "none"
\* if not video_file
video_missing(value) == ~Truthy(value)

MissingVideoResponse == Respond(PyDict(<<"error">>, <<PyStr("Missing video url")>>), 400)

\* Faulty variant of transcript_of: assembly_data.get("transcript", "N/A")
transcript_of_with_default(assembly) == DictGet(assembly, "transcript", PyStr("N/A"))
\* assembly_data.get("transcript")
transcript_of(assembly) == DictGet(assembly, "transcript", PyNone)

\* Faulty variant of transcript_missing: if transcript is None
transcript_missing_only_none(value) == value.k = "none"
\* if not transcript
transcript_missing(value) == ~Truthy(value)

MissingTranscriptResponse == Respond(PyDict(<<"error">>, <<PyStr("Missing transcript")>>), 400)

DistressReply ==
    "It sounds like you might be in distress. Please reach out to immediate help or call a trusted person right now. You're not alone."

EmergencyKeys ==
    <<"assemblyAI_output", "deepface_output", "bot_reply", "diagnostic_match",
      "conversation_type", "diagnostic_mapping", "emergency", "triggered_word">>

\* Faulty variant of emergency_response: "emergency": False
emergency_response_not_flagged(assembly, deepface, w) ==
    PyDict(EmergencyKeys,
           <<assembly, deepface, PyStr(DistressReply), PyBool(FALSE),
             PyStr("emergency"), EmptyList, PyBool(FALSE), w>>)
\* emergency_response = {...}
emergency_response(assembly, deepface, w) ==
    PyDict(EmergencyKeys,
           <<assembly, deepface, PyStr(DistressReply), PyBool(FALSE),
             PyStr("emergency"), EmptyList, PyBool(TRUE), w>>)

\* Faulty variant of diagnostic_match: "diagnostic_mapping" in model_output
diagnostic_match_if_present(output) ==
    \E i \in 1..Len(output.keys) : output.keys[i] = "diagnostic_mapping"
\* False if not model_output.get("diagnostic_mapping") else True
diagnostic_match(output) == Truthy(DictGet(output, "diagnostic_mapping", PyNone))

NormalKeys ==
    <<"assemblyAI_output", "deepface_output", "bot_reply", "diagnostic_match",
      "conversation_type", "diagnostic_mapping", "emergency">>

\* Faulty variant of response_payload: the emergency payload's keys, with
\* "triggered_word": None added.
response_payload_with_triggered_word(assembly, deepface, output) ==
    PyDict(EmergencyKeys,
           <<assembly, deepface,
             DictGet(output, "bot_reply", PyNone),
             PyBool(diagnostic_match(output)),
             DictGet(output, "conversation_type", PyStr("free_talk")),
             DictGet(output, "diagnostic_mapping", EmptyDict),
             PyBool(FALSE), PyNone>>)
\* response_payload = {...}
response_payload(assembly, deepface, output) ==
    PyDict(NormalKeys,
           <<assembly, deepface,
             DictGet(output, "bot_reply", PyNone),
             PyBool(diagnostic_match(output)),
             DictGet(output, "conversation_type", PyStr("free_talk")),
             DictGet(output, "diagnostic_mapping", EmptyDict),
             PyBool(FALSE)>>)

----------------------------------------------------------------------------
(* analyze_turn: one action per stretch of code between two blocking calls *)

\* Faulty variant of Propagate: the exception is caught and answered with 400.
PropagateAsBadRequest(svc) ==
    /\ events' = Append(events, Raise(svc))
    /\ pc' = "DONE"
    /\ response' = Respond(PyDict(<<"error">>, <<PyStr("Service failed")>>), 400)
\* A collaborator raised and analyze_turn has no handler: the exception leaves it.
Propagate(svc) ==
    /\ events' = Append(events, Raise(svc))
    /\ pc' = "DONE"
    /\ response' = ServerError

\* Lines 47-61: read the body, validate video_url, call analyze_audio.
Receive(body) ==
    /\ pc = "RECEIVE"
    /\ data' = body
    /\ IF ~HasGet(body)
       THEN /\ pc' = "DONE"
            /\ response' = ServerError
            /\ UNCHANGED <<questionnaires, past_turns, video_file, events>>
       ELSE /\ questionnaires' = DictGet(body, "questionnaires", EmptyDict)
            /\ past_turns' = DictGet(body, "past_turns", EmptyList)
            /\ video_file' = DictGet(body, "video_url", EmptyDict)
            /\ IF video_missing(video_file')
               THEN /\ pc' = "DONE"
                    /\ response' = MissingVideoResponse
                    /\ UNCHANGED events
               ELSE /\ pc' = "ANALYZE_AUDIO"
                    /\ events' = Append(events, Call(AUDIO))
                    /\ UNCHANGED response
    /\ UNCHANGED <<assembly_data, deepface_data, transcript, found_trigger, word,
                   model_output, nvars>>

\* Lines 61-63: analyze_audio ends; normalise its result, call analyze_video.
AudioReturns(outcome) ==
    /\ pc = "ANALYZE_AUDIO"
    /\ IF outcome.raised
       THEN /\ Propagate(AUDIO)
            /\ UNCHANGED assembly_data
       ELSE /\ assembly_data' = prepare_data_for_json(outcome.value)
            /\ events' = events \o <<Return(AUDIO), Call(VIDEO)>>
            /\ pc' = "ANALYZE_VIDEO"
            /\ UNCHANGED response
    /\ UNCHANGED <<data, questionnaires, past_turns, video_file, deepface_data,
                   transcript, found_trigger, word, model_output, nvars>>

\* Lines 63-72: analyze_video ends; normalise its result, check the transcript,
\* call check_trigger_words.
VideoReturns(outcome) ==
    /\ pc = "ANALYZE_VIDEO"
    /\ IF outcome.raised
       THEN /\ Propagate(VIDEO)
            /\ UNCHANGED <<deepface_data, transcript>>
       ELSE /\ deepface_data' = prepare_data_for_json(outcome.value)
            /\ transcript' = transcript_of(assembly_data)
            /\ IF transcript_missing(transcript')
               THEN /\ events' = Append(events, Return(VIDEO))
                    /\ pc' = "DONE"
                    /\ response' = MissingTranscriptResponse
               ELSE /\ events' = events \o <<Return(VIDEO), Call(TRIGGER)>>
                    /\ pc' = "CHECK_TRIGGER"
                    /\ UNCHANGED response
    /\ UNCHANGED <<data, questionnaires, past_turns, video_file, assembly_data,
                   found_trigger, word, model_output, nvars>>

\* Faulty variant of TriggerReturns: the model is called whatever the trigger
\* check found.
TriggerReturnsModelAnyway(outcome) ==
    /\ pc = "CHECK_TRIGGER"
    /\ IF outcome.raised
       THEN /\ Propagate(TRIGGER)
            /\ UNCHANGED <<found_trigger, word>>
       ELSE /\ found_trigger' = outcome.value.found
            /\ word' = outcome.value.word
            /\ events' = events \o <<Return(TRIGGER), Call(MODEL)>>
            /\ pc' = "CALL_MODEL"
            /\ UNCHANGED response
    /\ UNCHANGED <<data, questionnaires, past_turns, video_file, assembly_data,
                   deepface_data, transcript, model_output, nvars>>

\* Lines 72-88: check_trigger_words ends; on a match answer the emergency
\* payload, else call call_openai_therapy_model.
TriggerReturns(outcome) ==
    /\ pc = "CHECK_TRIGGER"
    /\ IF outcome.raised
       THEN /\ Propagate(TRIGGER)
            /\ UNCHANGED <<found_trigger, word>>
       ELSE /\ found_trigger' = outcome.value.found
            /\ word' = outcome.value.word
            /\ IF found_trigger'
               THEN /\ events' = Append(events, Return(TRIGGER))
                    /\ pc' = "DONE"
                    /\ response' = Respond(emergency_response(assembly_data, deepface_data, word'), 200)
               ELSE /\ events' = events \o <<Return(TRIGGER), Call(MODEL)>>
                    /\ pc' = "CALL_MODEL"
                    /\ UNCHANGED response
    /\ UNCHANGED <<data, questionnaires, past_turns, video_file, assembly_data,
                   deepface_data, transcript, model_output, nvars>>

\* Lines 88-102: call_openai_therapy_model ends; answer the normal payload.
ModelReturns(outcome) ==
    /\ pc = "CALL_MODEL"
    /\ IF outcome.raised
       THEN /\ Propagate(MODEL)
            /\ UNCHANGED model_output
       ELSE /\ model_output' = outcome.value
            /\ events' = Append(events, Return(MODEL))
            /\ pc' = "DONE"
            /\ response' = Respond(response_payload(assembly_data, deepface_data, model_output'), 200)
    /\ UNCHANGED <<data, questionnaires, past_turns, video_file, assembly_data,
                   deepface_data, transcript, found_trigger, word, nvars>>

----------------------------------------------------------------------------
(* Normalisation harness: apply prepare_data_for_json once, then again *)

HandlerIdle ==
    /\ pc = "RECEIVE"
    /\ data = PyNone
    /\ questionnaires = PyNone
    /\ past_turns = PyNone
    /\ video_file = PyNone
    /\ assembly_data = PyNone
    /\ deepface_data = PyNone
    /\ transcript = PyNone
    /\ found_trigger = FALSE
    /\ word = PyNone
    /\ model_output = PyNone
    /\ events = <<>>
    /\ response = NoResponse

NormIdle ==
    /\ npc = "in"
    /\ x = PyNone
    /\ once = PyNone
    /\ twice = PyNone

NormInit ==
    /\ HandlerIdle
    /\ npc = "in"
    /\ x \in Inputs
    /\ once = PyNone
    /\ twice = PyNone

Normalise ==
    /\ npc = "in"
    /\ once' = prepare_data_for_json(x)
    /\ npc' = "once"
    /\ UNCHANGED <<x, twice, hvars>>

NormaliseAgain ==
    /\ npc = "once"
    /\ twice' = prepare_data_for_json(once)
    /\ npc' = "twice"
    /\ UNCHANGED <<x, once, hvars>>

NormNext == Normalise \/ NormaliseAgain

NormSpec == NormInit /\ [][NormNext]_vars

----------------------------------------------------------------------------
(* One request to POST /analyze_turn *)

Init == HandlerIdle /\ NormIdle

Next ==
    \/ \E body \in RequestBodies : Receive(body)
    \/ \E outcome \in Outcomes(AudioResults) : AudioReturns(outcome)
    \/ \E outcome \in Outcomes(VideoResults) : VideoReturns(outcome)
    \/ \E outcome \in Outcomes(TriggerResults) : TriggerReturns(outcome)
    \/ \E outcome \in Outcomes(ModelOutputs) : ModelReturns(outcome)

Spec == Init /\ [][Next]_vars

----------------------------------------------------------------------------
(* What the formulas below speak of *)

HasEvent(ev) == \E i \in 1..Len(events) : events[i] = ev
HasKey(d, key) == \E i \in 1..Len(d.keys) : d.keys[i] = key
Field(r, key) == DictGet(r.body, key, PyNone)
ErrorBody(msg) == PyDict(<<"error">>, <<PyStr(msg)>>)

\* The collaborators analyze_turn has invoked, in order.
CallsMade ==
    LET made == SelectSeq(events, LAMBDA ev : ev.e = "call")
    IN [i \in 1..Len(made) |-> made[i].svc]
CallOrder == <<AUDIO, VIDEO, TRIGGER, MODEL>>
IsPrefix(a, b) == Len(a) <= Len(b) /\ \A i \in 1..Len(a) : a[i] = b[i]

\* The body is a JSON object without a usable video_url.
VideoUrlAbsentNullOrEmpty ==
    /\ data.k = "dict"
    /\ \/ ~HasKey(data, "video_url")
       \/ DictGet(data, "video_url", PyNone) \in {PyNone, PyStr("")}

AudioGaveNoTranscriptKey ==
    HasEvent(Return(AUDIO)) /\ ~HasKey(assembly_data, "transcript")

AudioGaveEmptyTranscript ==
    /\ HasEvent(Return(AUDIO))
    /\ HasKey(assembly_data, "transcript")
    /\ DictGet(assembly_data, "transcript", PyInt(1)) \in {PyNone, PyStr("")}

\* The two payloads of a 200 answer, told apart by their keys and flag.
IsEmergencyPayload(r) ==
    /\ r.status = 200
    /\ r.body.k = "dict"
    /\ HasKey(r.body, "triggered_word")
    /\ Field(r, "emergency") = PyBool(TRUE)
IsNormalPayload(r) ==
    /\ r.status = 200
    /\ r.body.k = "dict"
    /\ ~HasKey(r.body, "triggered_word")
    /\ Field(r, "emergency") = PyBool(FALSE)

\* The mapping the model returned under diagnostic_mapping holds something.
MappingNonEmpty(output) ==
    /\ HasKey(output, "diagnostic_mapping")
    /\ LET m == DictGet(output, "diagnostic_mapping", PyNone)
       IN m.k \in {"dict", "list"} /\ Len(m.items) > 0

PlainKinds == {"none", "bool", "int", "float", "str", "list", "tuple", "dict"}
PlainOf(kind) ==
    CASE kind = "npint" -> "int"
      [] kind = "npfloat" -> "float"
      [] kind = "ndarray" -> "list"
      [] OTHER -> kind

\* No NumPy scalar and no ndarray anywhere in value.
RECURSIVE AllPlain(_)
AllPlain(value) ==
    /\ value.k \in PlainKinds
    /\ \A i \in 1..Len(value.items) : AllPlain(value.items[i])

\* b is a with every NumPy value replaced by its plain counterpart: the same
\* keys, the same elements in the same order, the same numbers and texts.
RECURSIVE SameStructure(_, _)
SameStructure(a, b) ==
    /\ b.k = PlainOf(a.k)
    /\ b.v = a.v
    /\ b.s = a.s
    /\ b.keys = a.keys
    /\ Len(b.items) = Len(a.items)
    /\ \A i \in 1..Len(a.items) : SameStructure(a.items[i], b.items[i])

----------------------------------------------------------------------------
(* Claims *)

\* C1: a request whose JSON object has no video_url, a null one or an empty
\* string is answered 400 {"error": "Missing video url"}, and no collaborator
\* is called.
C1_MissingVideoUrl ==
    (pc # "RECEIVE" /\ VideoUrlAbsentNullOrEmpty)
        => /\ pc = "DONE"
           /\ response = [status |-> 400, body |-> ErrorBody("Missing video url")]
           /\ events = <<>>

C1_Witness ==
    /\ pc = "DONE"
    /\ HasKey(data, "video_url")
    /\ DictGet(data, "video_url", PyNone) = PyStr("")
    /\ response.status = 400

\* C2 as stated: once analyze_audio has returned a result without a transcript
\* key, the request ends with 400 {"error": "Missing transcript"} whatever
\* analyze_video does.
C2_AsStated ==
    (pc = "DONE" /\ AudioGaveNoTranscriptKey)
        => response = [status |-> 400, body |-> ErrorBody("Missing transcript")]

\* C2 amended: once analyze_audio has returned a result without a transcript
\* key, the request ends after analyze_video: with 400 {"error": "Missing
\* transcript"} when analyze_video returns, with an unhandled server error when
\* analyze_video raises; the trigger check and the model are never called.
C2_MissingTranscriptKey ==
    AudioGaveNoTranscriptKey
        => /\ pc \in {"ANALYZE_VIDEO", "DONE"}
           /\ pc = "DONE" =>
                IF HasEvent(Raise(VIDEO))
                THEN response = [status |-> 500, body |-> PyNone]
                ELSE response = [status |-> 400, body |-> ErrorBody("Missing transcript")]

C2_Witness ==
    /\ pc = "DONE"
    /\ AudioGaveNoTranscriptKey
    /\ HasEvent(Return(VIDEO))
    /\ response.status = 400

\* C3: when check_trigger_words reports a match, the request ends with 200 and
\* the emergency payload (emergency true, the fixed distress reply,
\* diagnostic_match false, conversation_type "emergency", diagnostic_mapping [],
\* triggered_word the phrase reported), and the therapy model is never called.
C3_EmergencyExit ==
    (HasEvent(Return(TRIGGER)) /\ found_trigger)
        => /\ pc = "DONE"
           /\ response.status = 200
           /\ Field(response, "emergency") = PyBool(TRUE)
           /\ Field(response, "bot_reply") = PyStr(DistressReply)
           /\ Field(response, "diagnostic_match") = PyBool(FALSE)
           /\ Field(response, "conversation_type") = PyStr("emergency")
           /\ Field(response, "diagnostic_mapping") = PyList(<<>>)
           /\ HasKey(response.body, "triggered_word")
           /\ Field(response, "triggered_word") = word
           /\ ~HasEvent(Call(MODEL))

C3_Witness ==
    /\ pc = "DONE"
    /\ HasEvent(Return(TRIGGER))
    /\ found_trigger
    /\ word = PyStr("end it all")
    /\ response.status = 200

\* C4: when check_trigger_words reports no match and the therapy model returns,
\* the answer has emergency false and diagnostic_match true exactly when the
\* model's diagnostic_mapping is a non-empty mapping or sequence.
C4_DiagnosticMatch ==
    (HasEvent(Return(TRIGGER)) /\ ~found_trigger /\ HasEvent(Return(MODEL)))
        => /\ pc = "DONE"
           /\ response.status = 200
           /\ Field(response, "emergency") = PyBool(FALSE)
           /\ Field(response, "diagnostic_match") = PyBool(MappingNonEmpty(model_output))

C4_Witness ==
    /\ pc = "DONE"
    /\ HasEvent(Return(MODEL))
    /\ HasKey(model_output, "diagnostic_mapping")
    /\ DictGet(model_output, "diagnostic_mapping", PyNone) = PyList(<<>>)
    /\ Field(response, "diagnostic_match") = PyBool(FALSE)

\* C5 as stated: every request analyze_turn has answered has produced exactly
\* one of the two payloads, emergency or normal.
C5_AsStated ==
    (pc = "DONE" /\ response.status \in {200, 400})
        => (IsEmergencyPayload(response) # IsNormalPayload(response))

\* C5 amended: every request answered with 200 has produced exactly one of the
\* two payloads, emergency or normal, never both; a request answered with 400
\* or ended by an unhandled error has produced neither.
C5_OneShapePer200 ==
    /\ ~(IsEmergencyPayload(response) /\ IsNormalPayload(response))
    /\ pc = "DONE" =>
         /\ response.status \in {200, 400, 500}
         /\ (response.status = 200)
              = (IsEmergencyPayload(response) \/ IsNormalPayload(response))
    /\ pc # "DONE" => response = NoResponse

C5_Witness ==
    /\ pc = "DONE"
    /\ IsNormalPayload(response)
    /\ ~IsEmergencyPayload(response)

\* C6: prepare_data_for_json applied to its own output changes nothing.
C6_Idempotent == npc = "twice" => twice = once

C6_Witness ==
    /\ npc = "twice"
    /\ x.k = "dict"
    /\ \E i \in 1..Len(x.items) : x.items[i].k = "ndarray" /\ Len(x.items[i].items) > 0
    /\ once # x
    /\ twice = once

\* C7: the output of prepare_data_for_json has the keys and the element order
\* of its input, and no NumPy scalar or array is left anywhere in it, whatever
\* container holds it.
C7_AllPlainSameStructure ==
    npc # "in" => (SameStructure(x, once) /\ AllPlain(once))

\* C8: the collaborators are called in the order audio, video, trigger check,
\* model, each at most once, each only after the one before has returned, and
\* the model only after the trigger check reported no match.
C8_CallOrder ==
    /\ IsPrefix(CallsMade, CallOrder)
    /\ \A i \in 1..Len(events) :
         events[i].e = "call" =>
            /\ i > 1 => events[i - 1].e = "return"
            /\ i < Len(events) =>
                 /\ events[i + 1].e \in {"return", "raise"}
                 /\ events[i + 1].svc = events[i].svc
    /\ HasEvent(Call(MODEL)) => (HasEvent(Return(TRIGGER)) /\ ~found_trigger)

C8_Witness ==
    /\ pc = "DONE"
    /\ CallsMade = CallOrder
    /\ HasEvent(Return(MODEL))

\* C9: when a collaborator raises, that is the last thing the request does: no
\* later call is made and the request ends as an unhandled server error, with
\* neither a 400 error body nor a 200 payload.
C9_NoRecovery ==
    \A i \in 1..Len(events) :
        events[i].e = "raise" =>
            /\ i = Len(events)
            /\ pc = "DONE"
            /\ response = [status |-> 500, body |-> PyNone]

C9_Witness ==
    /\ pc = "DONE"
    /\ HasEvent(Raise(VIDEO))
    /\ response.status = 500

\* C10: a transcript that is present but null or empty ends the request, once
\* analyze_video has returned, with 400 {"error": "Missing transcript"}; only
\* the audio and the video analysis have been called.
C10_EmptyTranscript ==
    (AudioGaveEmptyTranscript /\ HasEvent(Return(VIDEO)))
        => /\ pc = "DONE"
           /\ response = [status |-> 400, body |-> ErrorBody("Missing transcript")]
           /\ events = <<Call(AUDIO), Return(AUDIO), Call(VIDEO), Return(VIDEO)>>

C10_Witness ==
    /\ pc = "DONE"
    /\ AudioGaveEmptyTranscript
    /\ DictGet(assembly_data, "transcript", PyNone) = PyStr("")
    /\ HasEvent(Return(VIDEO))
    /\ response.status = 400

====
